---------------------------- MODULE Spec2Model ----------------------------
(* Saved-views store of svelte-table-views (src/lib/stores/saved-views.ts)  *)
(* as a state machine.  Views are JavaScript objects, modelled as records   *)
(* whose domain is the set of own keys; ids are opaque strings, modelled as *)
(* integers (NullId for null, positive numbers for crypto.randomUUID()      *)
(* results in generation order, negative numbers for caller-chosen ids).    *)
(* Date.now() reads the variable now; every call of a viewActions function  *)
(* is one step, since none of them awaits anything.                         *)
EXTENDS Integers, Sequences, FiniteSets, TLC

(* ------------------------------ bounds --------------------------------- *)
\* the number of calls and clock ticks in a run
MaxOps == 3

(* --------------------------- value universes --------------------------- *)
\* const limit = 50
Limit == 50
\* .slice(0, 5)
RecentLimit == 5
\* 7 * 24 * 60 * 60 * 1000 milliseconds
SevenDays == 7 * 24 * 60 * 60 * 1000
NullId == 0
Undefined == "undefined"
CustomIds == {-1, -2}
\* an id no view was ever given
UnknownIds == {-3}
Names == {"A", "B"}
\* names asked about: those in use, and two that differ from "A" in one character
QueryNames == Names \cup {"a", "A "}
\* excludeId left out of the call: undefined, which is no view's id
NoExclude == NullId

VARIABLES browser, storage, medium, savedViews, recentViews, activeViewId,
          activeViewModified, now, nextUuid, ops, last, ret, parked, modals, dup

vars == <<browser, storage, medium, savedViews, recentViews, activeViewId,
          activeViewModified, now, nextUuid, ops, last, ret, parked, modals, dup>>

\* the state of the components that call the store
ui == <<modals, dup>>

(* ------------------------ JavaScript object helpers -------------------- *)
\* { ...a, ...b }
Spread(a, b) ==
  [f \in (DOMAIN a) \cup (DOMAIN b) |-> IF f \in DOMAIN b THEN b[f] ELSE a[f]]

\* property read of an optional string key: a missing key reads as undefined
Get(o, f) == IF f \in DOMAIN o THEN o[f] ELSE Undefined

\* the value undefined where an object is expected (a return value, an argument)
NoObject == [undefined |-> TRUE]

\* the keys of a view that may hold undefined (description?, originalQuery?)
OptionalKeys == {"description", "originalQuery"}

\* views.find((v) => v.id === id): the first match, or undefined
FindIndex(views, id) ==
  IF \E i \in 1..Len(views) : views[i].id = id
  THEN CHOOSE i \in 1..Len(views) :
         /\ views[i].id = id
         /\ \A j \in 1..(i - 1) : views[j].id # id
  ELSE 0

Found(views, id) == FindIndex(views, id) # 0

Find(views, id) ==
  IF Found(views, id) THEN views[FindIndex(views, id)] ELSE NoObject

\* views.filter((v) => v.id !== id)
FilterOut(views, id) ==
  LET Keep(v) == v.id # id IN SelectSeq(views, Keep)

(* ------------------------------ persistence ---------------------------- *)
\* StringifyView dropping the optional keys whatever their value
StringifyView_dropsOptional(v) ==
  [f \in {g \in DOMAIN v : g \notin OptionalKeys} |-> v[f]]

\* JSON.stringify of one object drops the keys whose value is undefined
StringifyView(v) ==
  [f \in {g \in DOMAIN v : ~(g \in OptionalKeys /\ v[g] = Undefined)} |-> v[f]]

\* JSON.stringify(views): the stored text, modelled by the value it denotes
Stringify(views) ==
  [kind |-> "array", views |-> [i \in 1..Len(views) |-> StringifyView(views[i])]]

NoItem == [kind |-> "none"]

\* loadViewsFromStorage without the read of localStorage
loadViewsFromStorage_startsEmpty(b, item) == <<>>

\* loadViewsFromStorage()
loadViewsFromStorage(b, item) ==
  IF ~b THEN <<>>
  ELSE IF item.kind = "array" THEN item.views
  ELSE <<>>

\* localStorage as the store finds it: setItem throws or not (quota exceeded,
\* storage disabled), and the number of errors saveViewsToStorage has logged
WorkingMedium == [throws |-> FALSE, errors |-> 0]

\* saveViewsToStorage returning early on an empty collection
saveViewsToStorage_skipsEmpty(b, m, item, views) ==
  IF ~b THEN item
  ELSE IF m.throws \/ views = <<>> THEN item
  ELSE Stringify(views)

\* saveViewsToStorage(views), called by the savedViews subscriber: the item
\* it leaves in localStorage
\* saveViewsToStorage keeping the stored views that the collection lacks
saveViewsToStorage_merges(b, m, item, views) ==
  LET Missing(v) == \A i \in 1..Len(views) : views[i].id # v.id IN
    IF ~b THEN item
    ELSE IF m.throws THEN item
    ELSE IF item.kind = "array"
    THEN Stringify(views \o SelectSeq(item.views, Missing))
    ELSE Stringify(views)

saveViewsToStorage(b, m, item, views) ==
  IF ~b THEN item
  ELSE IF m.throws THEN item
  ELSE Stringify(views)

\* the catch of saveViewsToStorage: console.error
saveViewsToStorageLog(b, m) ==
  IF b /\ m.throws THEN [m EXCEPT !.errors = @ + 1] ELSE m

(* ------------------------------ derived stores ------------------------- *)
\* $views.filter((v) => v.lastUsed >= sevenDaysAgo)
FilterRecent(views, sevenDaysAgo) ==
  LET Keep(v) == v.lastUsed >= sevenDaysAgo IN SelectSeq(views, Keep)

\* two sorted runs merged: the comparator b.lastUsed - a.lastUsed puts a view
\* of the right run first only if it was used later than the left one (so
\* the runs are joined as they are once no view of the right run was)
RECURSIVE MergeByLastUsed(_, _)
MergeByLastUsed(left, right) ==
  IF left = <<>> THEN right
  ELSE IF right = <<>> THEN left
  ELSE IF left[Len(left)].lastUsed >= Head(right).lastUsed THEN left \o right
  ELSE IF Head(left).lastUsed >= Head(right).lastUsed
       THEN <<Head(left)>> \o MergeByLastUsed(Tail(left), right)
       ELSE <<Head(right)>> \o MergeByLastUsed(left, Tail(right))

\* .sort((a, b) => b.lastUsed - a.lastUsed), a stable sort
RECURSIVE SortByLastUsed(_)
SortByLastUsed(views) ==
  IF Len(views) <= 1 THEN views
  ELSE LET half == Len(views) \div 2 IN
         CHOOSE sorted \in
           { MergeByLastUsed(left, right) :
               left \in {SortByLastUsed(SubSeq(views, 1, half))},
               right \in {SortByLastUsed(SubSeq(views, half + 1, Len(views)))} } : TRUE

\* .slice(0, n)
Slice(views, n) == SubSeq(views, 1, IF Len(views) < n THEN Len(views) ELSE n)

\* recentOf without the .sort of line 64
recentOf_unsorted(views, t) ==
  Slice(FilterRecent(views, t - SevenDays), RecentLimit)

\* the callback of derived(savedViews, ...), run when Date.now() is t
recentOf(views, t) ==
  CHOOSE recent \in
    { Slice(SortByLastUsed(kept), RecentLimit) :
        kept \in {FilterRecent(views, t - SevenDays)} } : TRUE

(* ------------------------------ inputs --------------------------------- *)
\* views left in storage by an earlier session
SeedViews ==
  << [id |-> -1, name |-> "A", config |-> "c1", createdAt |-> 0, updatedAt |-> 0,
      usageCount |-> 0, lastUsed |-> 0],
     [id |-> -2, name |-> "B", config |-> "c2", description |-> "d",
      createdAt |-> 0, updatedAt |-> 0, usageCount |-> 1, lastUsed |-> 0] >>

InitialItems ==
  { NoItem, [kind |-> "garbage"], [kind |-> "object"],
    Stringify(<<>>), Stringify(SeedViews) }

\* SavedViewInput objects passed to save (the last one carries store-computed
\* keys, which the type omits but a JavaScript caller can still pass)
SaveInputs ==
  { [name |-> "A", config |-> "c1", description |-> Undefined],
    [name |-> "B", config |-> "c2", originalQuery |-> "q", id |-> -1,
     createdAt |-> now + 1, updatedAt |-> now + 1, usageCount |-> 1,
     lastUsed |-> now + 1] }

\* ids a caller can pass: ids it has seen or made up (never a UUID that has
\* not been generated yet)
KnownIds == (1..(nextUuid - 1)) \cup CustomIds

\* ids passed to load, update, delete and rename
IdArgs == KnownIds \cup UnknownIds

\* Partial<SavedView> objects passed to update
UpdateInputs ==
  { [config |-> "c2", description |-> "d"],
    [createdAt |-> now + 1, usageCount |-> 0, lastUsed |-> now + 1, updatedAt |-> 0],
    [id |-> -2] }

(* ------------------------------ state ---------------------------------- *)
\* what the last call was, the active-view state it started from, and how it
\* ended (the caller's view of the call)
Record(op, id, found, threw, r) ==
  /\ ops < MaxOps
  /\ ops' = ops + 1
  /\ last' = [op |-> op, id |-> id, found |-> found, threw |-> threw,
              active |-> activeViewId, modified |-> activeViewModified]
  /\ ret' = r
  /\ UNCHANGED parked

\* no second tab, no modal open, no duplication under way
NoTab == [open |-> FALSE]
ModalClosed == [pc |-> "closed"]
NoDuplicate == [pc |-> "idle"]
Flows == {1, 2}

InitOthers ==
  /\ parked = NoTab
  /\ modals = [f \in Flows |-> ModalClosed]
  /\ dup = NoDuplicate

Init ==
  /\ browser \in BOOLEAN
  /\ medium = WorkingMedium
  /\ InitOthers
  /\ \E item \in (IF browser THEN InitialItems ELSE {NoItem}) :
       /\ savedViews = loadViewsFromStorage(browser, item)
       /\ storage = saveViewsToStorage(browser, medium, item, loadViewsFromStorage(browser, item))
  /\ activeViewId = NullId
  /\ activeViewModified = FALSE
  /\ now = 0
  /\ recentViews = recentOf(savedViews, now)
  /\ nextUuid = 1
  /\ ops = 0
  /\ last = [op |-> "init", id |-> NullId, found |-> FALSE, threw |-> FALSE,
             active |-> NullId, modified |-> FALSE]
  /\ ret = NoObject

\* the wall clock advances between operations
Tick ==
  /\ ops < MaxOps
  /\ ops' = ops + 1
  /\ now' = now + 1
  /\ UNCHANGED <<browser, storage, medium, savedViews, recentViews, activeViewId,
                 activeViewModified, nextUuid, last, ret, parked, ui>>

\* the clock value up to which the model follows a run (three windows)
MaxClock == 3 * SevenDays

\* a window's length of time passes without any call
Idle ==
  /\ ops < MaxOps
  /\ now + SevenDays <= MaxClock
  /\ ops' = ops + 1
  /\ now' = now + SevenDays
  /\ UNCHANGED <<browser, storage, medium, savedViews, recentViews, activeViewId,
                 activeViewModified, nextUuid, last, ret, parked, ui>>

\* Publish keeping the collection in memory when the write fails
Publish_rollsBack(views, t) ==
  /\ savedViews' = IF browser /\ medium.throws THEN savedViews ELSE views
  /\ storage' = saveViewsToStorage(browser, medium, storage, views)
  /\ medium' = saveViewsToStorageLog(browser, medium)
  /\ recentViews' = recentOf(views, t)

\* savedViews.update(fn) when Date.now() is t: the store is set, its subscriber
\* persists it and the derived store recentViews runs its callback
Publish(views, t) ==
  /\ savedViews' = views
  /\ storage' = saveViewsToStorage(browser, medium, storage, views)
  /\ medium' = saveViewsToStorageLog(browser, medium)
  /\ recentViews' = recentOf(views, t)

\* the outcome of a call that changes nothing: it threw (no browser) or it
\* did not find its view (console.warn only)
Unchanged(threw) ==
  [threw |-> threw, found |-> FALSE, published |-> FALSE, savedViews |-> savedViews,
   activeViewId |-> activeViewId, activeViewModified |-> activeViewModified,
   ret |-> NoObject]

\* the outcome of a call that found its view and published a new collection
Changed(views, active, modified, r) ==
  [threw |-> FALSE, found |-> TRUE, published |-> TRUE, savedViews |-> views,
   activeViewId |-> active, activeViewModified |-> modified, ret |-> r]

\* one call of load/update/delete/rename takes the store to its outcome
Apply(op, id, r) ==
  /\ Record(op, id, r.found, r.threw, r.ret)
  /\ savedViews' = r.savedViews
  /\ storage' = IF r.published
                THEN saveViewsToStorage(browser, medium, storage, r.savedViews)
                ELSE storage
  /\ medium' = IF r.published THEN saveViewsToStorageLog(browser, medium) ELSE medium
  /\ recentViews' = IF r.published
                    THEN recentOf(r.savedViews, now)
                    ELSE recentViews
  /\ activeViewId' = r.activeViewId
  /\ activeViewModified' = r.activeViewModified
  /\ UNCHANGED <<browser, now, nextUuid, ui>>

(* ------------------------------ viewActions ---------------------------- *)
\* NewView with the spread of input written after the computed keys
NewView_inputWins(input, uuid, t1, t2, t3) ==
  Spread([id |-> uuid, createdAt |-> t1, updatedAt |-> t2,
          usageCount |-> 0, lastUsed |-> t3], input)

\* the object built by save from crypto.randomUUID() and three Date.now() reads
NewView(input, uuid, t1, t2, t3) ==
  Spread(input, [id |-> uuid, createdAt |-> t1, updatedAt |-> t2,
                 usageCount |-> 0, lastUsed |-> t3])

\* AppendView written as [newView, ...views]
AppendView_prepends(views, newView) == <<newView>> \o views

\* [...views, newView]
AppendView(views, newView) == views \o <<newView>>

\* save made to enforce the limit and the uniqueness of names itself
save_enforcesPolicy(input) ==
  IF \/ ~browser
     \/ Len(savedViews) >= Limit
     \/ \E i \in 1..Len(savedViews) : savedViews[i].name = input.name
  THEN /\ Record("save", NullId, FALSE, TRUE, NoObject)
       /\ UNCHANGED <<browser, storage, medium, savedViews, recentViews,
                      activeViewId, activeViewModified, now, nextUuid>>
  ELSE
    /\ \E t2 \in now..(now + 1) : \E t3 \in t2..(now + 1) :
         LET newView == NewView(input, nextUuid, now, t2, t3) IN
           /\ Record("save", NullId, FALSE, FALSE, newView)
           /\ Publish(AppendView(savedViews, newView), t3)
           /\ now' = t3
    /\ nextUuid' = nextUuid + 1
    /\ UNCHANGED <<browser, activeViewId, activeViewModified>>

\* save making the new view the active one
save_activates(input) ==
  IF ~browser
  THEN /\ Record("save", NullId, FALSE, TRUE, NoObject)
       /\ UNCHANGED <<browser, storage, medium, savedViews, recentViews,
                      activeViewId, activeViewModified, now, nextUuid>>
  ELSE
    /\ \E t2 \in now..(now + 1) : \E t3 \in t2..(now + 1) :
         LET newView == NewView(input, nextUuid, now, t2, t3) IN
           /\ Record("save", NullId, FALSE, FALSE, newView)
           /\ Publish(AppendView(savedViews, newView), t3)
           /\ now' = t3
    /\ nextUuid' = nextUuid + 1
    /\ activeViewId' = nextUuid
    /\ activeViewModified' = FALSE
    /\ UNCHANGED browser

save(input) ==
  IF ~browser
  THEN /\ Record("save", NullId, FALSE, TRUE, NoObject)
       /\ UNCHANGED <<browser, storage, medium, savedViews, recentViews,
                      activeViewId, activeViewModified, now, nextUuid>>
  ELSE
    /\ \E t2 \in now..(now + 1) : \E t3 \in t2..(now + 1) :
         LET newView == NewView(input, nextUuid, now, t2, t3) IN
           /\ Record("save", NullId, FALSE, FALSE, newView)
           /\ Publish(AppendView(savedViews, newView), t3)
           /\ now' = t3
    /\ nextUuid' = nextUuid + 1
    /\ UNCHANGED <<browser, activeViewId, activeViewModified>>

LoadOne(v, t) ==
  Spread(v, [usageCount |-> v.usageCount + 1, lastUsed |-> t])

loadViews(views, id, t) ==
  [i \in 1..Len(views) |-> IF views[i].id = id THEN LoadOne(views[i], t) ELSE views[i]]

\* loadResult without the activeViewModified.set(false) of line 129
loadResult_keepsModified(id) ==
  IF ~browser THEN Unchanged(TRUE)
  ELSE IF Found(savedViews, id)
  THEN Changed(loadViews(savedViews, id, now), id, activeViewModified,
               Find(savedViews, id))
  ELSE Unchanged(FALSE)

loadResult(id) ==
  IF ~browser THEN Unchanged(TRUE)
  ELSE IF Found(savedViews, id)
  THEN Changed(loadViews(savedViews, id, now), id, FALSE, Find(savedViews, id))
  ELSE Unchanged(FALSE)

load(id) == Apply("load", id, loadResult(id))

UpdateOne(v, updates, t) ==
  Spread(Spread(v, updates), [updatedAt |-> t])

updateViews(views, id, updates, t) ==
  [i \in 1..Len(views) |->
     IF views[i].id = id THEN UpdateOne(views[i], updates, t) ELSE views[i]]

\* updateResult with activeViewModified.set(false) moved out of the if (view)
updateResult_clearsWhenMissing(id, updates) ==
  IF ~browser THEN Unchanged(TRUE)
  ELSE IF Found(savedViews, id)
  THEN Changed(updateViews(savedViews, id, updates, now), activeViewId, FALSE,
               NoObject)
  ELSE [Unchanged(FALSE) EXCEPT !.activeViewModified = FALSE]

\* updateResult clearing the flag only when the view is the active one
updateResult_clearsOnlyActive(id, updates) ==
  IF ~browser THEN Unchanged(TRUE)
  ELSE IF Found(savedViews, id)
  THEN Changed(updateViews(savedViews, id, updates, now), activeViewId,
               IF id = activeViewId THEN FALSE ELSE activeViewModified, NoObject)
  ELSE Unchanged(FALSE)

updateResult(id, updates) ==
  IF ~browser THEN Unchanged(TRUE)
  ELSE IF Found(savedViews, id)
  THEN Changed(updateViews(savedViews, id, updates, now), activeViewId, FALSE,
               NoObject)
  ELSE Unchanged(FALSE)

update(id, updates) == Apply("update", id, updateResult(id, updates))

\* deleteResult without the activeViewModified.set(false) of line 188
deleteResult_keepsModified(id) ==
  IF ~browser THEN Unchanged(TRUE)
  ELSE IF Found(savedViews, id)
  THEN IF activeViewId = id
       THEN Changed(FilterOut(savedViews, id), NullId, activeViewModified, NoObject)
       ELSE Changed(FilterOut(savedViews, id), activeViewId, activeViewModified,
                    NoObject)
  ELSE Unchanged(FALSE)

\* deleteResult without the activeViewId.set(null) of line 187
deleteResult_keepsActive(id) ==
  IF ~browser THEN Unchanged(TRUE)
  ELSE IF Found(savedViews, id)
  THEN IF activeViewId = id
       THEN Changed(FilterOut(savedViews, id), activeViewId, FALSE, NoObject)
       ELSE Changed(FilterOut(savedViews, id), activeViewId, activeViewModified,
                    NoObject)
  ELSE Unchanged(FALSE)

\* deleteResult without the test of lines 174-176
deleteResult_withoutGuard(id) ==
  IF Found(savedViews, id)
  THEN IF activeViewId = id
       THEN Changed(FilterOut(savedViews, id), NullId, FALSE, NoObject)
       ELSE Changed(FilterOut(savedViews, id), activeViewId, activeViewModified,
                    NoObject)
  ELSE Unchanged(FALSE)

deleteResult(id) ==
  IF ~browser THEN Unchanged(TRUE)
  ELSE IF Found(savedViews, id)
  THEN IF activeViewId = id
       THEN Changed(FilterOut(savedViews, id), NullId, FALSE, NoObject)
       ELSE Changed(FilterOut(savedViews, id), activeViewId, activeViewModified,
                    NoObject)
  ELSE Unchanged(FALSE)

delete(id) == Apply("delete", id, deleteResult(id))

\* RenameOne without the updatedAt refresh of line 213
RenameOne_keepsUpdatedAt(v, newName, t) ==
  Spread(v, [name |-> newName])

\* RenameOne without the name: newName of line 212
RenameOne_keepsName(v, newName, t) ==
  Spread(v, [updatedAt |-> t])

RenameOne(v, newName, t) ==
  Spread(v, [name |-> newName, updatedAt |-> t])

\* renameViews without the test v.id === id
renameViews_renamesAll(views, id, newName, t) ==
  [i \in 1..Len(views) |-> RenameOne(views[i], newName, t)]

renameViews(views, id, newName, t) ==
  [i \in 1..Len(views) |->
     IF views[i].id = id THEN RenameOne(views[i], newName, t) ELSE views[i]]

renameResult(id, newName) ==
  IF ~browser THEN Unchanged(TRUE)
  ELSE IF Found(savedViews, id)
  THEN Changed(renameViews(savedViews, id, newName, now), activeViewId,
               activeViewModified, NoObject)
  ELSE Unchanged(FALSE)

rename(id, newName) == Apply("rename", id, renameResult(id, newName))

\* markModified guarded by an active view
markModified_onlyWhenActive ==
  /\ Record("markModified", NullId, FALSE, FALSE, NoObject)
  /\ activeViewModified' = (activeViewId # NullId \/ activeViewModified)
  /\ UNCHANGED <<browser, storage, medium, savedViews, recentViews, activeViewId,
                 now, nextUuid, ui>>

markModified ==
  /\ Record("markModified", NullId, FALSE, FALSE, NoObject)
  /\ activeViewModified' = TRUE
  /\ UNCHANGED <<browser, storage, medium, savedViews, recentViews, activeViewId,
                 now, nextUuid, ui>>

clearActive ==
  /\ Record("clearActive", NullId, FALSE, FALSE, NoObject)
  /\ activeViewId' = NullId
  /\ activeViewModified' = FALSE
  /\ UNCHANGED <<browser, storage, medium, savedViews, recentViews, now,
                 nextUuid, ui>>

\* nameExistsResult with the test on excludeId left out
nameExistsResult_ignoresExclude(b, views, name, excludeId) ==
  IF ~b THEN FALSE
  ELSE \E i \in 1..Len(views) : views[i].name = name

\* what nameExists(name, excludeId) resolves to
nameExistsResult(b, views, name, excludeId) ==
  IF ~b THEN FALSE
  ELSE \E i \in 1..Len(views) : views[i].name = name /\ views[i].id # excludeId

nameExists(name, excludeId) ==
  /\ Record("nameExists", excludeId, FALSE, FALSE,
            [value |-> nameExistsResult(browser, savedViews, name, excludeId)])
  /\ UNCHANGED <<browser, storage, medium, savedViews, recentViews, activeViewId,
                 activeViewModified, now, nextUuid, ui>>

\* Math.round(num / den) for num >= 0 and den > 0: floor(num / den + 0.5)
MathRound(num, den) == (2 * num + den) \div (2 * den)

\* getStorageStatsResult with percentFull capped at 100
getStorageStatsResult_capped(b, views) ==
  IF ~b THEN [count |-> 0, limit |-> Limit, percentFull |-> 0]
  ELSE [count |-> Len(views), limit |-> Limit,
        percentFull |-> IF MathRound(Len(views) * 100, Limit) > 100 THEN 100
                        ELSE MathRound(Len(views) * 100, Limit)]

\* what getStorageStats() resolves to
getStorageStatsResult(b, views) ==
  IF ~b THEN [count |-> 0, limit |-> Limit, percentFull |-> 0]
  ELSE [count |-> Len(views), limit |-> Limit,
        percentFull |-> MathRound(Len(views) * 100, Limit)]

getStorageStats ==
  /\ Record("getStorageStats", NullId, FALSE, FALSE,
            getStorageStatsResult(browser, savedViews))
  /\ UNCHANGED <<browser, storage, medium, savedViews, recentViews, activeViewId,
                 activeViewModified, now, nextUuid, ui>>

Save == (\E input \in SaveInputs : save(input)) /\ UNCHANGED ui
Load == \E id \in IdArgs : load(id)
Update == \E id \in IdArgs : \E updates \in UpdateInputs : update(id, updates)
Delete == \E id \in IdArgs : delete(id)
Rename == \E id \in IdArgs : \E newName \in Names : rename(id, newName)
NameExists ==
  \E name \in QueryNames : \E excludeId \in IdArgs \cup {NoExclude} :
    nameExists(name, excludeId)

Next ==
  \/ Tick
  \/ Save
  \/ Load
  \/ Update
  \/ Delete
  \/ Rename
  \/ markModified
  \/ clearActive

Spec == Init /\ [][Next]_vars

\* a store started on a persisted collection that is already at the limit
FullView(i) ==
  [id |-> -i, name |-> IF i = 1 THEN "A" ELSE IF i = 2 THEN "B" ELSE ToString(i),
   config |-> "c1", createdAt |-> 0, updatedAt |-> 0, usageCount |-> 0,
   lastUsed |-> 0]

FullItem == Stringify([i \in 1..Limit |-> FullView(i)])

InitFull ==
  /\ browser = TRUE
  /\ medium = WorkingMedium
  /\ InitOthers
  /\ savedViews = loadViewsFromStorage(browser, FullItem)
  /\ storage = saveViewsToStorage(browser, medium, FullItem, loadViewsFromStorage(browser, FullItem))
  /\ activeViewId = NullId
  /\ activeViewModified = FALSE
  /\ now = 0
  /\ recentViews = recentOf(savedViews, now)
  /\ nextUuid = 1
  /\ ops = 0
  /\ last = [op |-> "init", id |-> NullId, found |-> FALSE, threw |-> FALSE,
             active |-> NullId, modified |-> FALSE]
  /\ ret = NoObject

\* the calls that change the size of the collection
NextFull ==
  \/ Tick
  \/ Save
  \/ Delete

SpecFull == InitFull /\ [][NextFull]_vars

\* a store started, ten milliseconds after the first window has passed, on
\* views used at different times: two before the window (0, 9), one on its
\* edge (10), two at the same time (12) and six within the window in all
RecentLastUsed == <<0, 10, 11, 12, 12, 13, 9, SevenDays + 10>>

RecentView(i) ==
  [id |-> IF i <= 2 THEN -i ELSE -(8 + i),
   name |-> IF i = 1 THEN "A" ELSE IF i = 2 THEN "B" ELSE ToString(i),
   config |-> "c1", createdAt |-> 0, updatedAt |-> 0, usageCount |-> 1,
   lastUsed |-> RecentLastUsed[i]]

RecentItem == Stringify([i \in 1..Len(RecentLastUsed) |-> RecentView(i)])

InitRecent ==
  /\ browser = TRUE
  /\ medium = WorkingMedium
  /\ InitOthers
  /\ savedViews = loadViewsFromStorage(browser, RecentItem)
  /\ storage = saveViewsToStorage(browser, medium, RecentItem, loadViewsFromStorage(browser, RecentItem))
  /\ activeViewId = NullId
  /\ activeViewModified = FALSE
  /\ now = SevenDays + 10
  /\ recentViews = recentOf(savedViews, now)
  /\ nextUuid = 1
  /\ ops = 0
  /\ last = [op |-> "init", id |-> NullId, found |-> FALSE, threw |-> FALSE,
             active |-> NullId, modified |-> FALSE]
  /\ ret = NoObject

\* the calls that change lastUsed or the collection, and the passing of time
NextRecent ==
  \/ Tick
  \/ Idle
  \/ Save
  \/ Load
  \/ Delete

SpecRecent == InitRecent /\ [][NextRecent]_vars

\* the page is loaded again: the module runs anew on what localStorage holds
\* (the item read is kept as the outcome of the step), and the components
\* are back in their first state
\* Restart without the subscription that writes the collection back
Restart_withoutSubscribe ==
  /\ Record("restart", NullId, FALSE, FALSE, storage)
  /\ savedViews' = loadViewsFromStorage(browser, storage)
  /\ recentViews' = recentOf(loadViewsFromStorage(browser, storage), now)
  /\ activeViewId' = NullId
  /\ activeViewModified' = FALSE
  /\ modals' = [f \in Flows |-> ModalClosed]
  /\ dup' = NoDuplicate
  /\ UNCHANGED <<browser, storage, medium, now, nextUuid>>

Restart ==
  /\ Record("restart", NullId, FALSE, FALSE, storage)
  /\ savedViews' = loadViewsFromStorage(browser, storage)
  /\ storage' = saveViewsToStorage(browser, medium, storage,
                                   loadViewsFromStorage(browser, storage))
  /\ medium' = saveViewsToStorageLog(browser, medium)
  /\ recentViews' = recentOf(loadViewsFromStorage(browser, storage), now)
  /\ activeViewId' = NullId
  /\ activeViewModified' = FALSE
  /\ modals' = [f \in Flows |-> ModalClosed]
  /\ dup' = NoDuplicate
  /\ UNCHANGED <<browser, now, nextUuid>>

\* something else than this store writes or removes the item (the user clears
\* the site data, other code of the page, an earlier version of the library)
ExternalWrite ==
  /\ browser
  /\ ops < MaxOps
  /\ ops' = ops + 1
  /\ \E item \in InitialItems : storage' = item
  /\ UNCHANGED <<browser, medium, savedViews, recentViews, activeViewId,
                 activeViewModified, now, nextUuid, last, ret, parked, ui>>

\* save and delete, reloads and foreign writes, from every persisted
\* collection
NextRestart ==
  \/ Save
  \/ Delete
  \/ Restart
  \/ ExternalWrite

\* the module loaded on any of the persisted items, a full collection included
InitRestart == Init \/ InitFull

SpecRestart == InitRestart /\ [][NextRestart]_vars

\* nameExists asked between calls that change names, ids and the active view
NextQuery ==
  \/ Save
  \/ Load
  \/ Update
  \/ Delete
  \/ NameExists

SpecQuery == Init /\ [][NextQuery]_vars

\* getStorageStats asked of collections of every size, from empty to above
\* the limit
InitStats == Init \/ InitFull

NextStats ==
  \/ Save
  \/ Delete
  \/ getStorageStats

SpecStats == InitStats /\ [][NextStats]_vars


(* ------------------------------ properties ----------------------------- *)
\* the views of a collection that carry the id
Carriers(views, id) == {i \in 1..Len(views) : views[i].id = id}

\* C1: every load(id) of a view in the collection adds exactly 1 to that
\* view's usageCount and sets its lastUsed to the current time, which is not
\* before its previous lastUsed; every other view is left as it was.
C1_LoadCountsUse ==
  [][\A id \in IdArgs :
       (browser /\ Found(savedViews, id) /\ load(id)) =>
         /\ Len(savedViews') = Len(savedViews)
         /\ \A i \in 1..Len(savedViews) :
              IF savedViews[i].id = id
              THEN /\ savedViews'[i].usageCount = savedViews[i].usageCount + 1
                   /\ savedViews'[i].lastUsed = now
                   /\ savedViews'[i].lastUsed >= savedViews[i].lastUsed
              ELSE savedViews'[i] = savedViews[i]]_vars

\* C2: after load(id) of a view in the collection the active view is id and
\* the modified flag is false, whatever they were before.
C2_LoadActivates ==
  [][\A id \in IdArgs :
       (browser /\ Found(savedViews, id) /\ load(id)) =>
         (activeViewId' = id /\ activeViewModified' = FALSE)]_vars

\* a load that found its view while another view was active and modified
C2_Witness ==
  /\ last.op = "load" /\ last.found
  /\ last.active # NullId /\ last.active # last.id /\ last.modified
  /\ activeViewId = last.id /\ ~activeViewModified

\* C3: update(id, updates) of a view in the collection leaves that view's id
\* and createdAt as they were, for every updates object.
C3_UpdateKeepsIdentity ==
  [][\A id \in IdArgs : \A updates \in UpdateInputs :
       (browser /\ Found(savedViews, id) /\ update(id, updates)) =>
         /\ Len(savedViews') = Len(savedViews)
         /\ \A i \in Carriers(savedViews, id) :
              /\ savedViews'[i].id = savedViews[i].id
              /\ savedViews'[i].createdAt = savedViews[i].createdAt]_vars

\* C4: rename(id, newName) leaves the store exactly as update(id, {name:
\* newName}) would from the same state: same collection, same activeViewId,
\* same activeViewModified, same not-found and throwing behaviour.
C4_RenameIsUpdate ==
  [][\A id \in IdArgs : \A newName \in Names :
       rename(id, newName) =>
         LET u == updateResult(id, [name |-> newName]) IN
           /\ savedViews' = u.savedViews
           /\ activeViewId' = u.activeViewId
           /\ activeViewModified' = u.activeViewModified
           /\ last'.threw = u.threw
           /\ last'.found = u.found]_vars

\* C4 (amended): rename(id, newName) yields the collection, the activeViewId
\* and the not-found and throwing behaviour of update(id, {name: newName}),
\* but it leaves activeViewModified as it was, where update sets it to false.
C4_RenameIsUpdateButKeepsModified ==
  [][\A id \in IdArgs : \A newName \in Names :
       rename(id, newName) =>
         LET u == updateResult(id, [name |-> newName]) IN
           /\ savedViews' = u.savedViews
           /\ activeViewId' = u.activeViewId
           /\ activeViewModified' = activeViewModified
           /\ last'.threw = u.threw
           /\ last'.found = u.found]_vars

\* a rename that found its view while the modified flag was set
C4_Witness ==
  /\ last.op = "rename" /\ last.found /\ last.modified
  /\ activeViewModified
  /\ \E i \in Carriers(savedViews, last.id) : savedViews[i].updatedAt = now

\* C5: delete(id) of a view in the collection removes exactly that view and
\* leaves the others as they were; it resets activeViewId to none and
\* activeViewModified to false if id was the active view, and leaves both
\* untouched otherwise.
C5_DeleteRemovesOne ==
  [][\A id \in IdArgs :
       (browser /\ Found(savedViews, id) /\ delete(id)) =>
         LET k == FindIndex(savedViews, id) IN
           /\ Len(savedViews') = Len(savedViews) - 1
           /\ \A i \in 1..Len(savedViews') :
                savedViews'[i] = IF i < k THEN savedViews[i] ELSE savedViews[i + 1]
           /\ IF activeViewId = id
              THEN activeViewId' = NullId /\ activeViewModified' = FALSE
              ELSE UNCHANGED <<activeViewId, activeViewModified>>]_vars

\* C6: load, update, rename and delete of an id that is not in the collection
\* do not throw, return undefined, and leave the collection, the active view,
\* the modified flag and the persisted value as they were.
C6_NotFoundIsSoft ==
  [][\A id \in IdArgs :
       (/\ browser
        /\ ~Found(savedViews, id)
        /\ \/ load(id)
           \/ delete(id)
           \/ \E updates \in UpdateInputs : update(id, updates)
           \/ \E newName \in Names : rename(id, newName)) =>
         /\ UNCHANGED <<savedViews, activeViewId, activeViewModified, storage>>
         /\ ~last'.threw
         /\ ret' = NoObject]_vars

\* an update of an unknown id made while a view was active and modified
C6_Witness ==
  /\ browser /\ last.op = "update" /\ ~last.found /\ ~last.threw
  /\ ~Found(savedViews, last.id)
  /\ last.active # NullId /\ last.modified
  /\ activeViewId = last.active /\ activeViewModified

\* C7: the id of the view returned by a successful save differs from the id
\* of every view that was in the collection before the call.
C7_SaveIdIsFresh ==
  [][\A input \in SaveInputs :
       (browser /\ save(input)) =>
         /\ ~last'.threw
         /\ \A i \in 1..Len(savedViews) : savedViews[i].id # ret'.id]_vars

\* a save whose input carried the id of a view already in the collection
C7_Witness ==
  /\ last.op = "save" /\ ~last.threw
  /\ Len(savedViews) >= 2
  /\ ret = savedViews[Len(savedViews)]
  /\ ret.name = "B"
  /\ \E i \in 1..(Len(savedViews) - 1) : savedViews[i].id \in CustomIds

\* C8: the view created by a successful save has createdAt, updatedAt and
\* lastUsed equal to one another.
C8_SaveOneTimestamp ==
  [][\A input \in SaveInputs :
       (browser /\ save(input)) =>
         /\ ret'.createdAt = ret'.updatedAt
         /\ ret'.updatedAt = ret'.lastUsed]_vars

\* the keys a SavedViewInput hands over to the view
InputKeys == {"name", "description", "config", "originalQuery"}

\* C9: a successful save appends exactly one view: it carries the input's
\* name, description, config and originalQuery as given, has usageCount 0 and
\* an id and timestamps computed by the store (whatever the input carried);
\* every earlier view keeps its value and its position.
C9_SaveAppendsOne ==
  [][\A input \in SaveInputs :
       (browser /\ save(input)) =>
         LET v == savedViews'[Len(savedViews')] IN
           /\ Len(savedViews') = Len(savedViews) + 1
           /\ \A i \in 1..Len(savedViews) : savedViews'[i] = savedViews[i]
           /\ ret' = v
           /\ \A f \in InputKeys :
                IF f \in DOMAIN input
                THEN f \in DOMAIN v /\ v[f] = input[f]
                ELSE f \notin DOMAIN v
           /\ v.usageCount = 0
           /\ v.id = nextUuid
           /\ v.createdAt \in now..now'
           /\ v.updatedAt \in now..now'
           /\ v.lastUsed \in now..now']_vars

\* a save, into a non-empty collection, of the input that carried its own id,
\* usageCount and timestamps
C9_Witness ==
  /\ last.op = "save" /\ ~last.threw
  /\ Len(savedViews) >= 2
  /\ ret.name = "B" /\ ret.originalQuery = "q"
  /\ ret.usageCount = 0 /\ ret.id = nextUuid - 1
  /\ ret.createdAt <= now

\* the number of views of a collection that carry the name
NameCount(views, name) == Cardinality({i \in 1..Len(views) : views[i].name = name})

\* C10: save rejects neither on capacity nor on the name: with Limit views in
\* the collection one more save succeeds and the collection then holds
\* Limit + 1 views, and a save under a name already in use succeeds and leaves
\* two views of that name.
C10_SaveNeverRejects ==
  [][\A input \in SaveInputs :
       (browser /\ save(input)) =>
         /\ ~last'.threw
         /\ Len(savedViews') = Len(savedViews) + 1
         /\ NameCount(savedViews', input.name) = NameCount(savedViews, input.name) + 1]_vars

\* the save after the limit was reached, under a name that was in use
C10_Witness ==
  /\ last.op = "save" /\ ~last.threw
  /\ Len(savedViews) = Limit + 1
  /\ NameCount(savedViews, ret.name) = 2

\* C11: over any step of the store the usageCount of a view that stays in the
\* collection never decreases, and it changes only in a load of that view
\* (load, update and rename map the collection in place, save appends, delete
\* only removes views).
C11_UsageCountOnlyGrowsByLoad ==
  [][IF Len(savedViews') < Len(savedViews)
     THEN \A j \in 1..Len(savedViews') :
            \E i \in 1..Len(savedViews) : savedViews'[j] = savedViews[i]
     ELSE \A i \in 1..Len(savedViews) :
            /\ savedViews'[i].usageCount >= savedViews[i].usageCount
            /\ savedViews'[i].usageCount # savedViews[i].usageCount =>
                 load(savedViews[i].id)]_vars

\* C12: over any step of the store the lastUsed of a view that stays in the
\* collection never decreases, and it changes only in a load of that view.
C12_LastUsedOnlyGrowsByLoad ==
  [][IF Len(savedViews') < Len(savedViews)
     THEN \A j \in 1..Len(savedViews') :
            \E i \in 1..Len(savedViews) : savedViews'[j] = savedViews[i]
     ELSE \A i \in 1..Len(savedViews) :
            /\ savedViews'[i].lastUsed >= savedViews[i].lastUsed
            /\ savedViews'[i].lastUsed # savedViews[i].lastUsed =>
                 load(savedViews[i].id)]_vars

\* C13: in every reachable state every view of the collection has
\* createdAt <= updatedAt.
C13_CreatedBeforeUpdated ==
  \A i \in 1..Len(savedViews) : savedViews[i].createdAt <= savedViews[i].updatedAt

\* C14: update(id, updates) of a view in the collection gives that view the
\* values of exactly the keys of updates, except that updatedAt becomes the
\* current time; the view's other keys and every other view stay as they
\* were, and activeViewModified becomes false.
C14_UpdateReplacesSuppliedFields ==
  [][\A id \in IdArgs : \A updates \in UpdateInputs :
       (browser /\ Found(savedViews, id) /\ update(id, updates)) =>
         /\ Len(savedViews') = Len(savedViews)
         /\ \A i \in 1..Len(savedViews) :
              IF i = FindIndex(savedViews, id)
              THEN /\ DOMAIN savedViews'[i] =
                        DOMAIN savedViews[i] \cup DOMAIN updates \cup {"updatedAt"}
                   /\ savedViews'[i].updatedAt = now
                   /\ \A f \in DOMAIN updates \ {"updatedAt"} :
                        savedViews'[i][f] = updates[f]
                   /\ \A f \in DOMAIN savedViews[i] \ (DOMAIN updates \cup {"updatedAt"}) :
                        savedViews'[i][f] = savedViews[i][f]
              ELSE savedViews'[i] = savedViews[i]
         /\ activeViewModified' = FALSE]_vars

\* C15: after rename(id, X) of a view in the collection nameExists(X), called
\* without excludeId, resolves to true.
C15_RenamedNameExists ==
  [][\A id \in IdArgs : \A X \in Names :
       (browser /\ Found(savedViews, id) /\ rename(id, X)) =>
         nameExistsResult(browser', savedViews', X, NoExclude)]_vars

\* a rename gave the name "B" to a view made as "A", and nameExists("B") is true
C15_Witness ==
  /\ last.op = "rename" /\ last.found
  /\ \E i \in 1..Len(savedViews) :
       /\ savedViews[i].id = last.id
       /\ savedViews[i].name = "B" /\ savedViews[i].config = "c1"
  /\ nameExistsResult(browser, savedViews, "B", NoExclude)

\* C16: after rename(id, X) of a view in the collection
\* nameExists(X, excludeId = id) resolves to false.
C16_RenamedNameIsFree ==
  [][\A id \in IdArgs : \A X \in Names :
       (browser /\ Found(savedViews, id) /\ rename(id, X)) =>
         ~nameExistsResult(browser', savedViews', X, id)]_vars

\* C16 (amended): after rename(id, X) of a view in the collection
\* nameExists(X, excludeId = id) resolves to true exactly when a view with
\* another id was named X before the rename (rename does not check that the
\* name is free); it resolves to false when no other view bears the name.
C16_RenamedNameIsFreeUnlessShared ==
  [][\A id \in IdArgs : \A X \in Names :
       (browser /\ Found(savedViews, id) /\ rename(id, X)) =>
         (nameExistsResult(browser', savedViews', X, id) <=>
            \E i \in 1..Len(savedViews) :
              savedViews[i].id # id /\ savedViews[i].name = X)]_vars

\* a rename gave a view a name that no view with another id bears
C16_Witness ==
  /\ last.op = "rename" /\ last.found
  /\ \E i \in 1..Len(savedViews) :
       /\ savedViews[i].id = last.id
       /\ \A j \in 1..Len(savedViews) :
            savedViews[j].name = savedViews[i].name => savedViews[j].id = last.id
       /\ ~nameExistsResult(browser, savedViews, savedViews[i].name, last.id)

\* C17: in a browser nameExists(name, excludeId) resolves to true exactly when
\* some view of the collection has exactly that name and an id other than
\* excludeId, and the call leaves the collection, the active-view state and
\* the persisted value as they were.
C17_NameExistsSemantics ==
  [][\A name \in QueryNames : \A excludeId \in IdArgs \cup {NoExclude} :
       (browser /\ nameExists(name, excludeId)) =>
         /\ ret'.value =
              (Cardinality({i \in 1..Len(savedViews) :
                              /\ savedViews[i].name = name
                              /\ savedViews[i].id # excludeId}) > 0)
         /\ UNCHANGED <<savedViews, activeViewId, activeViewModified, storage>>]_vars

\* nameExists was asked about the name of the only view that bears it, with
\* that view excluded and while that view was active, and resolved to false
C17_Witness ==
  /\ browser /\ last.op = "nameExists" /\ ret = [value |-> FALSE]
  /\ activeViewId = last.id
  /\ \E i \in 1..Len(savedViews) : savedViews[i].id = last.id

\* C18: in a browser getStorageStats() resolves to count = the length of the
\* collection, limit = 50 and percentFull = the integer nearest to
\* 100 * count / 50 (2 for one view, more than 100 for more than 50 views),
\* and the call leaves the store as it was.
C18_StorageStats ==
  [][(browser /\ getStorageStats) =>
       /\ ret'.count = Len(savedViews)
       /\ ret'.limit = 50
       /\ 2 * ret'.percentFull * 50 - 2 * 100 * ret'.count <= 50
       /\ 2 * 100 * ret'.count - 2 * ret'.percentFull * 50 < 50
       /\ (ret'.count = 1 => ret'.percentFull = 2)
       /\ (ret'.count > 50 => ret'.percentFull > 100)
       /\ UNCHANGED <<savedViews, activeViewId, activeViewModified, storage>>]_vars

\* getStorageStats was asked of a collection above the limit
C18_Witness ==
  /\ browser /\ last.op = "getStorageStats"
  /\ Len(savedViews) > Limit
  /\ ret.count = Len(savedViews) /\ ret.percentFull > 100

\* C19: in every state, the recentViews that a subscribed reader holds
\* contains no view whose lastUsed is more than seven days before the current
\* time.
C19_RecentNeverStale ==
  \A i \in 1..Len(recentViews) : recentViews[i].lastUsed >= now - SevenDays

\* recent is at most five views in descending order of lastUsed, all of them
\* views of the collection used within the seven days before t, and every
\* such view that is left out was used no later than any view in it
IsRecentSelection(recent, views, t) ==
  LET qualifying == {views[j] : j \in {k \in 1..Len(views) :
                                         views[k].lastUsed >= t - SevenDays}}
      chosen == {recent[i] : i \in 1..Len(recent)}
  IN /\ Len(recent) <= 5
     /\ \A i \in 1..(Len(recent) - 1) : recent[i].lastUsed >= recent[i + 1].lastUsed
     /\ Cardinality(chosen) = Len(recent)
     /\ chosen \subseteq qualifying
     /\ Len(recent) = 5 \/ chosen = qualifying
     /\ \A v \in qualifying \ chosen : \A w \in chosen : w.lastUsed >= v.lastUsed

\* C20: recentViews never has more than five entries and is always in
\* descending order of lastUsed, and each time the store computes it (at the
\* start and whenever the collection is set) it consists of the most recently
\* used views of the collection among those used within the seven days before
\* that time.
C20_RecentIsTopFive ==
  /\ IsRecentSelection(recentViews, savedViews, now)
  /\ [](/\ Len(recentViews) <= 5
        /\ \A i \in 1..(Len(recentViews) - 1) :
             recentViews[i].lastUsed >= recentViews[i + 1].lastUsed)
  /\ [][savedViews' # savedViews =>
          IsRecentSelection(recentViews', savedViews', now')]_vars

\* a load of a view used before the window put it first among five recent
\* views, while six views of the collection are within the window and one is not
C20_Witness ==
  /\ last.op = "load" /\ last.found /\ last.id = -1
  /\ Len(recentViews) = 5 /\ recentViews[1].id = -1
  /\ Cardinality({j \in 1..Len(savedViews) :
                    savedViews[j].lastUsed >= now - SevenDays}) > 5
  /\ \E j \in 1..Len(savedViews) : savedViews[j].lastUsed < now - SevenDays

\* C21: in a browser whose localStorage accepts every write, the item under
\* the storage key is at all times (at the start and after every call that
\* sets the collection) the serialization of the whole in-memory collection.
C21_StorageMirrorsCollection ==
  (browser /\ ~medium.throws /\ medium.errors = 0) =>
    storage = Stringify(savedViews)

\* a save has put a view with an undefined description in the collection, and
\* the stored item holds the collection without that key
C21_Witness ==
  /\ browser /\ last.op = "save" /\ ~last.threw
  /\ \E i \in 1..Len(savedViews) :
       /\ "description" \in DOMAIN savedViews[i]
       /\ "description" \notin DOMAIN storage.views[i]
  /\ storage = Stringify(savedViews)

\* C28: markModified sets activeViewModified to true whether or not a view is
\* active and leaves activeViewId as it was; clearActive sets activeViewId
\* to null and activeViewModified to false; neither changes the collection or
\* the stored item.
C28_FlagCallsFrame ==
  [][/\ markModified =>
          /\ activeViewModified' = TRUE
          /\ UNCHANGED <<activeViewId, savedViews, storage>>
     /\ clearActive =>
          /\ activeViewId' = NullId
          /\ activeViewModified' = FALSE
          /\ UNCHANGED <<savedViews, storage>>]_vars

\* markModified was called with no active view and a clear flag
C28_Witness ==
  /\ last.op = "markModified" /\ last.active = NullId /\ ~last.modified
  /\ activeViewModified /\ activeViewId = NullId

\* reading key f of an object gives undefined
IsUndefined(o, f) == f \notin DOMAIN o \/ (f \in OptionalKeys /\ o[f] = Undefined)

\* the two objects give the same value for every key read
SameFields(v, w) ==
  \A f \in DOMAIN v \cup DOMAIN w :
    IF IsUndefined(v, f) \/ IsUndefined(w, f)
    THEN IsUndefined(v, f) /\ IsUndefined(w, f)
    ELSE v[f] = w[f]

C27_LoadFromStorage ==
  [][(browser /\ Restart) =>
       /\ ~last'.threw
       /\ storage.kind \in {"none", "garbage", "object"} => savedViews' = <<>>
       /\ storage.kind = "array" => savedViews' = storage.views]_vars

\* the page was loaded on an item that is not JSON and started empty
C27_Witness ==
  /\ browser /\ last.op = "restart" /\ ret.kind = "garbage"
  /\ savedViews = <<>> /\ storage = Stringify(<<>>)

\* every call of the store where there is no window (server-side rendering)
NextNoBrowser ==
  \/ Tick
  \/ Save
  \/ Load
  \/ Update
  \/ Delete
  \/ Rename
  \/ markModified
  \/ clearActive
  \/ NameExists
  \/ getStorageStats

\* the module loaded where there is no window
InitNoBrowser == Init /\ ~browser

SpecNoBrowser == InitNoBrowser /\ [][NextNoBrowser]_vars

\* C23: without a window, save, load, update, delete and rename fail and
\* leave the collection, the active view and its modified flag as they were;
\* nameExists answers false and getStorageStats answers count 0, limit 50,
\* percentFull 0, neither failing.
C23_NoBrowser ==
  [][~browser =>
       /\ (Save \/ Load \/ Update \/ Delete \/ Rename) =>
            /\ last'.threw
            /\ UNCHANGED <<savedViews, activeViewId, activeViewModified>>
       /\ NameExists => (~last'.threw /\ ret' = [value |-> FALSE])
       /\ getStorageStats =>
            /\ ~last'.threw
            /\ ret' = [count |-> 0, limit |-> 50, percentFull |-> 0]]_vars

\* a delete failed without a window while the modified flag was up, and the
\* flag is still up
C23_Witness ==
  /\ ~browser /\ last.op = "delete" /\ last.threw
  /\ last.modified /\ activeViewModified /\ savedViews = <<>>

\* localStorage.setItem starts to throw (quota exceeded, storage disabled)
SetItemFails ==
  /\ browser
  /\ ~medium.throws
  /\ medium' = [medium EXCEPT !.throws = TRUE]
  /\ UNCHANGED <<browser, storage, savedViews, recentViews, activeViewId,
                 activeViewModified, now, nextUuid, ops, last, ret, parked, ui>>

\* localStorage.setItem works again
SetItemWorks ==
  /\ browser
  /\ medium.throws
  /\ medium' = [medium EXCEPT !.throws = FALSE]
  /\ UNCHANGED <<browser, storage, savedViews, recentViews, activeViewId,
                 activeViewModified, now, nextUuid, ops, last, ret, parked, ui>>

\* save and delete, on a medium whose writes fail from time to time
NextQuota ==
  \/ Save
  \/ Delete
  \/ SetItemFails
  \/ SetItemWorks

\* a browser whose stored item is the seed collection
InitQuota == Init /\ browser /\ savedViews = SeedViews

SpecQuota == InitQuota /\ [][NextQuota]_vars

\* C26: in a browser, a call that changes the collection while setItem throws
\* does not fail, the collection in memory has the change (the saved view is
\* appended, the deleted view is gone) and the stored item stays as it was;
\* a call that changes the collection while setItem works leaves the stored
\* item equal to the serialization of the whole collection in memory.
C26_WriteFailure ==
  [][(browser /\ (Save \/ Delete)
              /\ (last'.op = "save" \/ last'.found)) =>
       /\ ~last'.threw
       /\ last'.op = "save" => savedViews' = Append(savedViews, ret')
       /\ last'.op = "delete" => savedViews' = FilterOut(savedViews, last'.id)
       /\ medium.throws => (storage' = storage /\ medium'.errors = medium.errors + 1)
       /\ ~medium.throws => storage' = Stringify(savedViews')]_vars

\* two saves, the first one's write failed, the second one's succeeded: the
\* stored item holds both views
C26_Witness ==
  /\ browser /\ last.op = "save" /\ ops = 2 /\ nextUuid = 3
  /\ medium.errors = 1 /\ ~medium.throws
  /\ storage = Stringify(savedViews)
  /\ \E i \in 1..Len(storage.views) : storage.views[i].id = 1

\* the page is opened in a second tab: its module loads what localStorage
\* holds and its subscription writes that back; the first tab is left behind
\* with its memory
OpenTab ==
  /\ browser
  /\ ~parked.open
  /\ parked' = [open |-> TRUE, savedViews |-> savedViews, recentViews |-> recentViews,
                activeViewId |-> activeViewId, activeViewModified |-> activeViewModified]
  /\ savedViews' = loadViewsFromStorage(browser, storage)
  /\ storage' = saveViewsToStorage(browser, medium, storage,
                                   loadViewsFromStorage(browser, storage))
  /\ medium' = saveViewsToStorageLog(browser, medium)
  /\ recentViews' = recentOf(loadViewsFromStorage(browser, storage), now)
  /\ activeViewId' = NullId
  /\ activeViewModified' = FALSE
  /\ UNCHANGED <<browser, now, nextUuid, ops, last, ret, ui>>

\* the user goes to the other tab: its stores hold what they held when the
\* user left it (nothing in the module listens to the other tab's writes)
SwitchTab ==
  /\ parked.open
  /\ parked' = [open |-> TRUE, savedViews |-> savedViews, recentViews |-> recentViews,
                activeViewId |-> activeViewId, activeViewModified |-> activeViewModified]
  /\ savedViews' = parked.savedViews
  /\ recentViews' = parked.recentViews
  /\ activeViewId' = parked.activeViewId
  /\ activeViewModified' = parked.activeViewModified
  /\ UNCHANGED <<browser, storage, medium, now, nextUuid, ops, last, ret, ui>>

\* save and delete in two tabs of one browser
NextTabs ==
  \/ Save
  \/ Delete
  \/ OpenTab
  \/ SwitchTab

SpecTabs == InitQuota /\ [][NextTabs]_vars

\* the ids of a collection
IdsOf(views) == {views[i].id : i \in 1..Len(views)}

\* C25: with two tabs open, a call that changes the collection of the tab in
\* use does not fail and leaves the stored item equal to the serialization of
\* that tab's whole collection: a view that only the other tab holds is not
\* in the stored item.
C25_LastWriterWins ==
  [][(parked.open /\ (Save \/ Delete) /\ (last'.op = "save" \/ last'.found)) =>
       /\ ~last'.threw
       /\ storage' = Stringify(savedViews')
       /\ IdsOf(storage'.views) \cap (IdsOf(parked.savedViews) \ IdsOf(savedViews')) = {}]_vars

\* a view was saved in one tab, then one in the other tab: the stored item
\* has the second view and not the first, which the first tab still holds
C25_Witness ==
  /\ parked.open /\ last.op = "save" /\ ~last.threw /\ ret.id = 2
  /\ 1 \in IdsOf(parked.savedViews)
  /\ 2 \in IdsOf(storage.views)
  /\ 1 \notin IdsOf(storage.views)
  /\ storage = Stringify(savedViews)

(* ------------------------------ SaveViewModal -------------------------- *)
\* text typed in a field, as its sequence of characters
MaxNameLength == 100
Chars(n) == [i \in 1..n |-> "x"]

\* String.prototype.trim() on a text of spaces and other characters
Trim(text) ==
  IF \A i \in 1..Len(text) : text[i] = " " THEN <<>>
  ELSE SubSeq(text,
              CHOOSE i \in 1..Len(text) :
                text[i] # " " /\ \A j \in 1..(i - 1) : text[j] = " ",
              CHOOSE i \in 1..Len(text) :
                text[i] # " " /\ \A j \in (i + 1)..Len(text) : text[j] = " ")

\* the string made of the characters of a text
RECURSIVE Join(_)
Join(text) ==
  IF Len(text) = 0 THEN ""
  ELSE IF Len(text) = 1 THEN text[1]
  ELSE Join(SubSeq(text, 1, Len(text) \div 2))
         \o Join(SubSeq(text, Len(text) \div 2 + 1, Len(text)))

\* what the user types in the name field and in the description field
TypedForms ==
  { [name |-> <<" ">>, description |-> <<"d">>],
    [name |-> <<"A">>, description |-> <<"d">>],
    [name |-> <<" ", "C", " ">>, description |-> <<" ">>],
    [name |-> Chars(MaxNameLength), description |-> <<" ", "d">>],
    [name |-> Chars(MaxNameLength + 1), description |-> <<>>] }

\* the modal showing its form
Form(n, d, e) ==
  [pc |-> "form", name |-> n, description |-> d, error |-> e, saving |-> FALSE]

\* an async function suspended at one of its awaits, with the value the
\* awaited promise resolves to; behind: another continuation is ahead of it
\* in the microtask queue
Suspended(m) == m.pc \in {"nameExists", "getStorageStats", "save"}
Await(m, pc, value, behind) ==
  [pc |-> pc, name |-> m.name, description |-> m.description, error |-> m.error,
   saving |-> m.saving, awaited |-> value, behind |-> behind]
Ahead(m) == IF Suspended(m) THEN [m EXCEPT !.behind = FALSE] ELSE m
Other(f) == CHOOSE g \in Flows : g # f

\* modal f goes on as m; the microtask queue is first in, first out
Continue(f, m) ==
  modals' = [g \in Flows |-> IF g = f THEN m ELSE Ahead(modals[g])]

\* no continuation is waiting: the browser takes the next event
Quiet == (\A f \in Flows : ~Suspended(modals[f])) /\ ~Suspended(dup)

\* ModalInput with the name as typed
ModalInput_untrimmed(m) ==
  [name |-> Join(m.name),
   description |-> IF Trim(m.description) = <<>> THEN Undefined
                   ELSE Join(Trim(m.description)),
   config |-> "c1", originalQuery |-> Undefined]

\* the object handleSave passes to save (the props are config and an
\* originalQuery left at its default)
ModalInput(m) ==
  [name |-> Join(Trim(m.name)),
   description |-> IF Trim(m.description) = <<>> THEN Undefined
                   ELSE Join(Trim(m.description)),
   config |-> "c1", originalQuery |-> Undefined]

\* the modal is opened (the form is reset) and the user fills it in
EnterName(f, forms) ==
  /\ browser
  /\ Quiet
  /\ modals[f].pc \in {"closed", "form"}
  /\ \E typed \in forms :
       modals' = [modals EXCEPT ![f] = Form(typed.name, typed.description, "")]
  /\ UNCHANGED <<browser, storage, medium, savedViews, recentViews, activeViewId,
                 activeViewModified, now, nextUuid, ops, last, ret, parked, dup>>

\* handleSave up to its first await; a second call can come in the task that
\* made the first one, before any continuation runs
handleSave(f) ==
  /\ modals[f].pc = "form"
  /\ ~Suspended(dup)
  /\ Suspended(modals[Other(f)]) => modals[Other(f)].pc = "nameExists"
  /\ IF Trim(modals[f].name) = <<>>
     THEN Continue(f, [modals[f] EXCEPT !.error = "Name is required"])
     ELSE IF Len(modals[f].name) > MaxNameLength
     THEN Continue(f, [modals[f] EXCEPT
                         !.error = "Name must be 100 characters or less"])
     ELSE Continue(f, Await(modals[f], "nameExists",
                            nameExistsResult(browser, savedViews,
                                             Join(Trim(modals[f].name)), NoExclude),
                            Suspended(modals[Other(f)])))
  /\ UNCHANGED <<browser, storage, medium, savedViews, recentViews, activeViewId,
                 activeViewModified, now, nextUuid, ops, last, ret, parked, dup>>

\* handleSave from the answer of nameExists to its second await
AfterNameExists(f) ==
  /\ modals[f].pc = "nameExists"
  /\ ~modals[f].behind
  /\ IF modals[f].awaited
     THEN Continue(f, Form(modals[f].name, modals[f].description,
                           "View \"" \o Join(Trim(modals[f].name))
                             \o "\" already exists. Please choose a different name."))
     ELSE Continue(f, Await(modals[f], "getStorageStats",
                            getStorageStatsResult(browser, savedViews),
                            Suspended(modals[Other(f)])))
  /\ UNCHANGED <<browser, storage, medium, savedViews, recentViews, activeViewId,
                 activeViewModified, now, nextUuid, ops, last, ret, parked, dup>>

\* handleSave from the answer of getStorageStats to the await of save
AfterGetStorageStats(f) ==
  /\ modals[f].pc = "getStorageStats"
  /\ ~modals[f].behind
  /\ IF modals[f].awaited.count >= modals[f].awaited.limit
     THEN /\ Continue(f, Form(modals[f].name, modals[f].description,
                              "Storage limit reached (" \o ToString(modals[f].awaited.limit)
                                \o " views). Please delete unused views."))
          /\ UNCHANGED <<browser, storage, medium, savedViews, recentViews,
                         activeViewId, activeViewModified, now, nextUuid, ops, last,
                         ret, parked, dup>>
     ELSE /\ save(ModalInput(modals[f]))
          /\ Continue(f, Await([modals[f] EXCEPT !.saving = TRUE, !.error = ""], "save",
                               [threw |-> last'.threw, view |-> ret'],
                               Suspended(modals[Other(f)])))
          /\ UNCHANGED dup

\* handleSave from the outcome of save to its end
AfterSave(f) ==
  /\ modals[f].pc = "save"
  /\ ~modals[f].behind
  /\ IF modals[f].awaited.threw
     THEN Continue(f, Form(modals[f].name, modals[f].description,
                           "Failed to save view. Please try again."))
     ELSE Continue(f, ModalClosed)
  /\ UNCHANGED <<browser, storage, medium, savedViews, recentViews, activeViewId,
                 activeViewModified, now, nextUuid, ops, last, ret, parked, dup>>

\* a call made by another handler, in a task of its own
UserDelete == Quiet /\ Delete

\* a browser whose stored item is the seed collection or a full collection
InitModal == InitQuota \/ InitFull

\* one modal, and views deleted by another handler
NextModal ==
  \/ EnterName(1, TypedForms)
  \/ handleSave(1)
  \/ AfterNameExists(1)
  \/ AfterGetStorageStats(1)
  \/ AfterSave(1)
  \/ UserDelete

SpecModal == InitModal /\ [][NextModal]_vars

\* C29: handleSave calls save only when the typed name has a character other
\* than a space, has at most 100 characters, is, trimmed, the name of no view
\* and the collection has fewer than 50 views; a call that fails one of these
\* checks ends with an error message and the collection unchanged; the view
\* that is saved has the trimmed name.
C29_HandleSaveValidates ==
  [][\A f \in Flows : modals'[f] # modals[f] =>
       LET m == modals[f]
           Blank == Trim(m.name) = <<>>
           TooLong == Len(m.name) > 100
           trimmed == Join(Trim(m.name))
           Taken == \E i \in 1..Len(savedViews) : savedViews[i].name = trimmed
           Full == Len(savedViews) >= 50
           Rejected == /\ modals'[f].pc = "form"
                       /\ modals'[f].error # ""
                       /\ savedViews' = savedViews
                       /\ ops' = ops
       IN
         /\ (AfterGetStorageStats(f) /\ ops' # ops) =>
              /\ ~Blank /\ ~TooLong /\ ~Taken /\ ~Full
              /\ savedViews' = Append(savedViews, ret')
              /\ ret'.name = Join(Trim(m.name))
         /\ (handleSave(f) /\ (Blank \/ TooLong)) => Rejected
         /\ (AfterNameExists(f) /\ Taken) => Rejected
         /\ (AfterGetStorageStats(f) /\ Full) => Rejected
         /\ ((handleSave(f) \/ AfterNameExists(f) \/ AfterGetStorageStats(f))
               /\ ~Blank /\ ~TooLong /\ ~Taken /\ ~Full) => Suspended(modals'[f])]_vars

\* the modal saved the name typed with spaces around it, trimmed, and closed
C29_Witness ==
  /\ modals[1] = ModalClosed /\ last.op = "save" /\ ~last.threw
  /\ ret.name = "C" /\ ret.description = Undefined
  /\ savedViews[Len(savedViews)] = ret


\* the forms with a name that is not blank and is shorter than the longest
\* one allowed
RaceForms ==
  {typed \in TypedForms : Trim(typed.name) # <<>> /\ Len(typed.name) < MaxNameLength}

\* two modals whose handleSave can be called in one task, and views deleted
\* by another handler
NextRace ==
  \/ \E f \in Flows : EnterName(f, RaceForms)
  \/ \E f \in Flows : handleSave(f)
  \/ \E f \in Flows : AfterNameExists(f)
  \/ \E f \in Flows : AfterGetStorageStats(f)
  \/ \E f \in Flows : AfterSave(f)
  \/ UserDelete

SpecRace == InitModal /\ [][NextRace]_vars

\* C24: a handleSave whose two checks passed goes on to call save, and save
\* appends its view without failing whatever the collection has become since
\* the checks: two calls made in one task both pass and both save, which
\* gives two views of one name and can give more views than the limit.
C24_CheckedSaveIsNotRechecked ==
  [][\A f \in Flows :
       (/\ modals[f].pc = "getStorageStats"
        /\ modals[f].awaited.count < modals[f].awaited.limit
        /\ AfterGetStorageStats(f)) =>
         /\ ~last'.threw
         /\ savedViews' = Append(savedViews, ret')
         /\ ret'.name = Join(Trim(modals[f].name))]_vars

\* both modals have saved and closed: the collection has two views named "C"
\* and 51 views
C24_Witness ==
  /\ \A f \in Flows : modals[f] = ModalClosed
  /\ \E i, j \in 1..Len(savedViews) :
       /\ i # j
       /\ savedViews[i].name = "C" /\ savedViews[j].name = "C"
       /\ savedViews[i].id > 0 /\ savedViews[j].id > 0
  /\ Len(savedViews) > 50


(* ------------------------------ ViewSelector --------------------------- *)
\* `${view.name} (Copy)` and `${view.name} (Copy ${counter})`
CopyName(name) == name \o " (Copy)"
NumberedCopyName(name, counter) == name \o " (Copy " \o ToString(counter) \o ")"

\* NextDuplicate without the counter++ of line 125 and with the numbered name
\* built once
NextDuplicate_sameName(d) ==
  [d EXCEPT !.duplicateName = NumberedCopyName(d.view.name, 2),
            !.awaited = nameExistsResult(browser, savedViews,
                                         NumberedCopyName(d.view.name, 2), NoExclude)]

\* one turn of the while loop of duplicateView: the next name is tried
NextDuplicate(d) ==
  [d EXCEPT !.duplicateName = NumberedCopyName(d.view.name, d.counter),
            !.counter = d.counter + 1,
            !.awaited = nameExistsResult(browser, savedViews,
                                         NumberedCopyName(d.view.name, d.counter),
                                         NoExclude)]

\* the object duplicateView passes to save
DuplicateInput(d) ==
  [name |-> d.duplicateName, description |-> Get(d.view, "description"),
   config |-> d.view.config, originalQuery |-> Get(d.view, "originalQuery")]

\* the user clicks Duplicate on a view of the list: duplicateView up to its
\* first await
duplicateView ==
  /\ browser
  /\ Quiet
  /\ ops < MaxOps
  /\ \E i \in 1..Len(savedViews) :
       dup' = [pc |-> "nameExists", view |-> savedViews[i],
               duplicateName |-> CopyName(savedViews[i].name), counter |-> 2,
               awaited |-> nameExistsResult(browser, savedViews,
                                            CopyName(savedViews[i].name), NoExclude)]
  /\ UNCHANGED <<browser, storage, medium, savedViews, recentViews, activeViewId,
                 activeViewModified, now, nextUuid, ops, last, ret, parked, modals>>

\* duplicateView from an answer of nameExists to its next await
AfterDuplicateNameExists ==
  /\ dup.pc = "nameExists"
  /\ IF dup.awaited
     THEN /\ dup' = NextDuplicate(dup)
          /\ UNCHANGED <<browser, storage, medium, savedViews, recentViews,
                         activeViewId, activeViewModified, now, nextUuid, ops, last,
                         ret, parked, modals>>
     ELSE /\ save(DuplicateInput(dup))
          /\ dup' = [dup EXCEPT !.pc = "save", !.awaited = last'.threw]
          /\ UNCHANGED modals

\* duplicateView from the outcome of save to its end (console.log, or
\* console.error and alert)
AfterDuplicateSave ==
  /\ dup.pc = "save"
  /\ dup' = NoDuplicate
  /\ UNCHANGED <<browser, storage, medium, savedViews, recentViews, activeViewId,
                 activeViewModified, now, nextUuid, ops, last, ret, parked, modals>>

\* views duplicated from the list
NextDuplicateView ==
  \/ duplicateView
  \/ AfterDuplicateNameExists
  \/ AfterDuplicateSave

\* a collection left by a session in which "A" was copied twice and its first
\* copy deleted
CopiedViews ==
  << SeedViews[1],
     [id |-> -4, name |-> "A (Copy 2)", config |-> "c1", description |-> "d",
      originalQuery |-> "q", createdAt |-> 0, updatedAt |-> 0, usageCount |-> 0,
      lastUsed |-> 0] >>

InitDuplicateView ==
  /\ browser = TRUE
  /\ medium = WorkingMedium
  /\ InitOthers
  /\ savedViews = loadViewsFromStorage(browser, Stringify(CopiedViews))
  /\ storage = saveViewsToStorage(browser, medium, Stringify(CopiedViews),
                                  loadViewsFromStorage(browser, Stringify(CopiedViews)))
  /\ activeViewId = NullId
  /\ activeViewModified = FALSE
  /\ now = 0
  /\ recentViews = recentOf(savedViews, now)
  /\ nextUuid = 1
  /\ ops = 0
  /\ last = [op |-> "init", id |-> NullId, found |-> FALSE, threw |-> FALSE,
             active |-> NullId, modified |-> FALSE]
  /\ ret = NoObject

\* a continuation in the microtask queue is run
SpecDuplicateView ==
  /\ InitDuplicateView
  /\ [][NextDuplicateView]_vars
  /\ WF_vars(AfterDuplicateNameExists)
  /\ WF_vars(AfterDuplicateSave)

\* the name duplicateView is to give to a copy of a view named name
FirstUnusedCopyName(views, name) ==
  LET Used(n) == \E i \in 1..Len(views) : views[i].name = n IN
    IF ~Used(CopyName(name)) THEN CopyName(name)
    ELSE NumberedCopyName(name,
           CHOOSE k \in 2..(Len(views) + 2) :
             /\ ~Used(NumberedCopyName(name, k))
             /\ \A j \in 2..(k - 1) : Used(NumberedCopyName(name, j)))

\* C30: a call of duplicateView ends; until it ends it changes the collection
\* in one step only, which appends one view: its name is "<name> (Copy)" if
\* no view has that name and else "<name> (Copy k)" for the least k from 2 on
\* that no view has, a name no view had; its description, config and
\* originalQuery are those of the source view, its id is of no other view and
\* its usageCount is 0.
C30_DuplicateView ==
  /\ [][/\ (AfterDuplicateNameExists \/ AfterDuplicateSave) =>
             \/ savedViews' = savedViews /\ ops' = ops
             \/ /\ dup.pc = "nameExists" /\ dup'.pc = "save"
                /\ ~last'.threw
                /\ savedViews' = Append(savedViews, ret')
                /\ ret'.name = FirstUnusedCopyName(savedViews, dup.view.name)
                /\ \A i \in 1..Len(savedViews) : savedViews[i].name # ret'.name
                /\ Get(ret', "description") = Get(dup.view, "description")
                /\ ret'.config = dup.view.config
                /\ Get(ret', "originalQuery") = Get(dup.view, "originalQuery")
                /\ ret'.id \notin IdsOf(savedViews)
                /\ ret'.usageCount = 0
        /\ (dup.pc = "save" /\ dup'.pc # "save") => dup' = NoDuplicate
        /\ (dup.pc = "nameExists" /\ dup' = NoDuplicate) => FALSE]_vars
  /\ (dup.pc = "nameExists" ~> dup = NoDuplicate)

\* a view named "A" was copied twice: first as "A (Copy)", which was free
\* though "A (Copy 2)" was not, then as "A (Copy 3)" after the loop went
\* round twice
C30_Witness ==
  /\ dup = NoDuplicate /\ last.op = "save" /\ ~last.threw
  /\ ret.name = "A (Copy 3)" /\ ret.id = 2
  /\ savedViews[Len(savedViews)] = ret
  /\ \E i \in 1..Len(savedViews) :
       savedViews[i].name = "A (Copy)" /\ savedViews[i].id = 1


\* C31: after every call the active id is none or the id of a view of the
\* collection (the derived activeView is none exactly when activeViewId is).
C31_ActiveIsInCollection ==
  activeViewId = NullId \/ activeViewId \in IdsOf(savedViews)


\* C32: in every state, activeViewModified implies that a view is active.
C32_ModifiedImpliesActive == activeViewModified => activeViewId # NullId

\* C32, amended: the flag goes up only in a call of markModified, which raises
\* it whether or not a view is active (so it can be up while no view is
\* active), and a call that takes the active view away (clearActive, delete of
\* the active view) leaves the flag down.
C32_FlagRaisedOnlyByMarkModified ==
  [][/\ (~activeViewModified /\ activeViewModified') =>
          (markModified /\ last'.op = "markModified")
     /\ (activeViewId # NullId /\ activeViewId' = NullId) => ~activeViewModified']_vars

\* a view was saved with the flag up and no view active: both are as they were
C32_Witness ==
  /\ activeViewModified /\ activeViewId = NullId
  /\ last.op = "save" /\ ~last.threw /\ last.modified /\ last.active = NullId


\* C33: an update of an existing view that is not the active one leaves
\* activeViewModified as it was, and the flag goes down only in a load, an
\* update of the active view, a delete of the active view or clearActive.
C33_UpdateOfOtherKeepsFlag ==
  [][/\ (Update /\ last'.found /\ last'.id # activeViewId) =>
          activeViewModified' = activeViewModified
     /\ (activeViewModified /\ ~activeViewModified') =>
          \/ Load
          \/ Update /\ last'.id = activeViewId
          \/ Delete /\ last'.id = activeViewId
          \/ clearActive]_vars

\* C33, amended: an update that finds its view leaves the flag down whether
\* or not the view is the active one, and the flag goes down only in a load
\* or an update that finds its view, a delete of the active view or
\* clearActive.
C33_UpdateClearsFlag ==
  [][/\ (Update /\ last'.found) => ~activeViewModified'
     /\ (activeViewModified /\ ~activeViewModified') =>
          \/ Load /\ last'.found
          \/ Update /\ last'.found
          \/ Delete /\ last'.found /\ last'.id = activeViewId
          \/ clearActive]_vars

\* a view other than the active one was updated while the flag was up: the
\* flag is down and the active view is the same
C33_Witness ==
  /\ last.op = "update" /\ last.found /\ last.modified
  /\ last.active # NullId /\ last.id # last.active
  /\ ~activeViewModified /\ activeViewId = last.active


\* a view is selected and the table is changed, each in a task of its own
UserLoad == Quiet /\ Load
UserMarkModified == Quiet /\ markModified

\* the page of the demo: a view is loaded, the table is changed, and
\* "Save New" opens the modal
NextSaveNew ==
  \/ UserLoad
  \/ UserMarkModified
  \/ EnterName(1, RaceForms)
  \/ handleSave(1)
  \/ AfterNameExists(1)
  \/ AfterGetStorageStats(1)
  \/ AfterSave(1)

SpecSaveNew == InitQuota /\ [][NextSaveNew]_vars

\* C34: a save, and every step of the modal's handleSave around it, leaves
\* activeViewId and activeViewModified as they were; the saved view is not
\* the active one.
C34_SaveKeepsActive ==
  [][/\ (ops' # ops /\ last'.op = "save") =>
          /\ UNCHANGED <<activeViewId, activeViewModified>>
          /\ ~last'.threw => ret'.id # activeViewId'
     /\ (\E f \in Flows : modals'[f] # modals[f]) =>
          UNCHANGED <<activeViewId, activeViewModified>>]_vars

\* "Save New" was done while a view was active and changed: the same view
\* is active and the flag is still up
C34_Witness ==
  /\ modals[1] = ModalClosed /\ last.op = "save" /\ ~last.threw
  /\ last.active # NullId /\ last.modified
  /\ activeViewId = last.active /\ activeViewModified
  /\ ret.name = "C" /\ ret.id # activeViewId
  /\ savedViews[Len(savedViews)] = ret


\* C35: the view a successful load returns carries the usageCount and the
\* lastUsed of the view stored under that id once load has completed.
C35_LoadReturnsStored ==
  [][(Load /\ last'.found) =>
       /\ Found(savedViews', last'.id)
       /\ ret'.usageCount = Find(savedViews', last'.id).usageCount
       /\ ret'.lastUsed = Find(savedViews', last'.id).lastUsed]_vars


\* C38: in a browser the item holds the serialization of the collection as
\* soon as the module has run, at the first start and at every later one,
\* before any operation is called; an item that was absent, not JSON or not
\* an array has been replaced by the serialization of the empty array.
C38_StartWritesBack ==
  /\ browser => storage = Stringify(savedViews)
  /\ [][(browser /\ Restart) =>
          /\ storage' = Stringify(savedViews')
          /\ storage.kind \in {"none", "garbage", "object"} =>
               storage' = Stringify(<<>>)
          /\ storage.kind = "array" => storage' = Stringify(storage.views)]_vars

\* the page was loaded on an item holding JSON that is not an array: the
\* item is now the empty array
C38_Witness ==
  /\ browser /\ last.op = "restart" /\ ret.kind = "object"
  /\ savedViews = <<>> /\ storage = Stringify(<<>>) /\ storage # ret


\* C39: each operation sets the collection store before it sets the pointer
\* (load: line 116 before 128; delete: line 182 before 187), so a subscriber
\* notified of the new collection reads the pointer of before the step;
\* that pointer is none or names a view of the collection being published.
C39_NoTornNotification ==
  [][savedViews' # savedViews =>
       (activeViewId = NullId \/ activeViewId \in IdsOf(savedViews'))]_vars

\* C39, amended: the notification of a delete of the active view publishes
\* the collection without that view while activeViewId still names it, and
\* the pointer is none once the delete has completed; no other operation
\* except update publishes a collection that lacks the view the pointer named
\* in the collection before.
C39_DeletePublishesBeforeClearing ==
  [][/\ (Delete /\ last'.found /\ last'.id = activeViewId) =>
          /\ savedViews' # savedViews
          /\ activeViewId \notin IdsOf(savedViews')
          /\ activeViewId' = NullId
     /\ (/\ \/ Save
            \/ Load
            \/ Delete /\ last'.id # activeViewId
            \/ Rename
         /\ activeViewId \in IdsOf(savedViews)) =>
          activeViewId \in IdsOf(savedViews')]_vars

\* the active view was deleted: it is gone and no view is active
C39_Witness ==
  /\ last.op = "delete" /\ last.found /\ ~last.threw
  /\ last.active # NullId /\ last.id = last.active
  /\ last.id \notin IdsOf(savedViews) /\ savedViews # <<>>
  /\ activeViewId = NullId /\ ~activeViewModified


\* the rows of the dropdown the user acts on
Rows(views) == {i \in 1..Len(views) : i <= 2}

\* what the user leaves in the rename input
RenameValues == { <<" ", "A", " ">>, <<" ">> }

\* the user clicks a view of the dropdown: selectView
selectView ==
  /\ Quiet
  /\ \E i \in Rows(savedViews) : load(savedViews[i].id)

\* the user presses Enter in the rename input of a view: confirmRename
confirmRename ==
  /\ Quiet
  /\ \E i \in Rows(savedViews) : \E renameValue \in RenameValues :
       LET view == Find(savedViews, savedViews[i].id)
           trimmedValue == Join(Trim(renameValue))
       IN IF Trim(renameValue) # <<>> /\ trimmedValue # view.name
          THEN rename(view.id, trimmedValue)
          ELSE UNCHANGED vars

\* the user clicks Delete on a view and answers the confirm dialog: deleteView
deleteView ==
  /\ Quiet
  /\ \E i \in Rows(savedViews) : \E confirmed \in BOOLEAN :
       IF confirmed
       THEN delete(Find(savedViews, savedViews[i].id).id)
       ELSE UNCHANGED vars

\* the user clicks Duplicate on one of these rows
UserDuplicate ==
  /\ duplicateView
  /\ dup'.view \in {savedViews[i] : i \in Rows(savedViews)}

\* the components of the library on one page holding a full collection: the
\* save modal and the dropdown, each handler called when no other one is
\* under way
NextPresentation ==
  \/ EnterName(1, RaceForms)
  \/ handleSave(1)
  \/ AfterNameExists(1)
  \/ AfterGetStorageStats(1)
  \/ AfterSave(1)
  \/ UserDuplicate
  \/ AfterDuplicateNameExists
  \/ AfterDuplicateSave
  \/ confirmRename
  \/ deleteView
  \/ selectView

SpecPresentation == InitFull /\ [][NextPresentation]_vars

\* C36: whatever the user does with the save modal and the dropdown, the
\* collection never holds more than 50 views.
C36_AtMostLimit == Len(savedViews) <= Limit

\* the names of the views are pairwise distinct
DistinctNames(views) ==
  \A i, j \in 1..Len(views) : views[i].name = views[j].name => i = j

\* C37: whatever the user does with the save modal and the dropdown, the
\* names of the views stay pairwise distinct.
C37_NamesStayDistinct == DistinctNames(savedViews)

=============================================================================
